---- MODULE Spec2Model ----
(***************************************************************************)
(* Model of st2actions/bootstrap/runnersregistrar.py: the catalog          *)
(* RUNNER_TYPES and register_runner_types(experimental), which reconciles  *)
(* the catalog against the RunnerType store.                               *)
(*                                                                         *)
(* One call of register_runner_types is modelled as a loop over the        *)
(* catalog; each loop iteration is split at the calls that can raise       *)
(* (lookup, validation, add_or_update), so that the exception paths of the *)
(* source are separate actions.                                            *)
(***************************************************************************)
EXTENDS Integers, Sequences, FiniteSets, TLC

\* Bounds of the model.
MaxDefs == 2      \* longest catalog
MaxPasses == 2    \* calls of register_runner_types in one process

\* Names of catalog entries (a prefix of this sequence names a catalog), and
\* the name of a record the store may hold that no catalog entry has.
NameSeq == <<"run-local", "run-windows-cmd", "run-windows-script", "run-remote", "http-runner">>
StaleName == "action-chain-v0"

\* ---------------------------------------------------------------------
\* The catalog: dictionaries of RUNNER_TYPES.
\* The 'experimental' key is "absent", "true" or "false"; one parameter
\* ('timeout'/'username') stands for runner_parameters, with the keys
\* 'required' and 'default' present or not.
\* ---------------------------------------------------------------------
ParameterSpec(required, has_default) ==
    [required |-> required, has_default |-> has_default,
     default |-> IF has_default THEN 1800 ELSE 0]

Kinds == {"plain", "experimental", "not_experimental", "required_default",
          "experimental_required_default"}

RunnerTypeDefinition(name, kind) ==
    [name |-> name,
     description |-> "current",
     enabled |-> TRUE,
     experimental |-> CASE kind \in {"experimental", "experimental_required_default"} -> "true"
                        [] kind = "not_experimental" -> "false"
                        [] OTHER -> "absent",
     runner_module |-> "st2actions.runners",
     runner_parameters |-> IF kind \in {"required_default", "experimental_required_default"}
                           THEN ParameterSpec(TRUE, TRUE)
                           ELSE ParameterSpec(FALSE, TRUE)]

Catalogs ==
    UNION {{[k \in 1..n |-> RunnerTypeDefinition(NameSeq[k], kinds[k])] :
                kinds \in [1..n -> Kinds]} : n \in 1..MaxDefs}

\* ---------------------------------------------------------------------
\* RUNNER_TYPES as shipped (lines 34-440): per entry its name, its
\* 'experimental' key and, per runner parameter, whether 'required' is True
\* and whether a 'default' key is present.
\* ---------------------------------------------------------------------
ShippedCatalog == <<
    [name |-> "run-local", experimental |-> "absent",
     runner_parameters |->
          {[name |-> "cmd", required |-> FALSE, has_default |-> FALSE],
           [name |-> "cwd", required |-> FALSE, has_default |-> FALSE],
           [name |-> "env", required |-> FALSE, has_default |-> FALSE],
           [name |-> "sudo", required |-> FALSE, has_default |-> TRUE],
           [name |-> "kwarg_op", required |-> FALSE, has_default |-> TRUE],
           [name |-> "timeout", required |-> FALSE, has_default |-> TRUE]}],
    [name |-> "run-local-script", experimental |-> "absent",
     runner_parameters |->
          {[name |-> "cwd", required |-> FALSE, has_default |-> FALSE],
           [name |-> "env", required |-> FALSE, has_default |-> FALSE],
           [name |-> "sudo", required |-> FALSE, has_default |-> TRUE],
           [name |-> "kwarg_op", required |-> FALSE, has_default |-> TRUE],
           [name |-> "timeout", required |-> FALSE, has_default |-> TRUE]}],
    [name |-> "run-remote", experimental |-> "absent",
     runner_parameters |->
          {[name |-> "hosts", required |-> TRUE, has_default |-> FALSE],
           [name |-> "username", required |-> FALSE, has_default |-> FALSE],
           [name |-> "password", required |-> FALSE, has_default |-> FALSE],
           [name |-> "private_key", required |-> FALSE, has_default |-> FALSE],
           [name |-> "cmd", required |-> FALSE, has_default |-> FALSE],
           [name |-> "cwd", required |-> FALSE, has_default |-> FALSE],
           [name |-> "env", required |-> FALSE, has_default |-> FALSE],
           [name |-> "parallel", required |-> FALSE, has_default |-> TRUE],
           [name |-> "sudo", required |-> FALSE, has_default |-> TRUE],
           [name |-> "dir", required |-> FALSE, has_default |-> TRUE],
           [name |-> "kwarg_op", required |-> FALSE, has_default |-> TRUE],
           [name |-> "timeout", required |-> FALSE, has_default |-> TRUE]}],
    [name |-> "run-remote-script", experimental |-> "absent",
     runner_parameters |->
          {[name |-> "hosts", required |-> TRUE, has_default |-> FALSE],
           [name |-> "username", required |-> FALSE, has_default |-> FALSE],
           [name |-> "password", required |-> FALSE, has_default |-> FALSE],
           [name |-> "private_key", required |-> FALSE, has_default |-> FALSE],
           [name |-> "parallel", required |-> FALSE, has_default |-> TRUE],
           [name |-> "cwd", required |-> FALSE, has_default |-> TRUE],
           [name |-> "env", required |-> FALSE, has_default |-> FALSE],
           [name |-> "sudo", required |-> FALSE, has_default |-> TRUE],
           [name |-> "dir", required |-> FALSE, has_default |-> TRUE],
           [name |-> "kwarg_op", required |-> FALSE, has_default |-> TRUE],
           [name |-> "timeout", required |-> FALSE, has_default |-> TRUE]}],
    [name |-> "http-runner", experimental |-> "absent",
     runner_parameters |->
          {[name |-> "url", required |-> TRUE, has_default |-> FALSE],
           [name |-> "headers", required |-> FALSE, has_default |-> FALSE],
           [name |-> "cookies", required |-> FALSE, has_default |-> FALSE],
           [name |-> "http_proxy", required |-> FALSE, has_default |-> FALSE],
           [name |-> "https_proxy", required |-> FALSE, has_default |-> FALSE],
           [name |-> "allow_redirects", required |-> FALSE, has_default |-> TRUE]}],
    [name |-> "mistral-v1", experimental |-> "absent",
     runner_parameters |->
          {[name |-> "workbook", required |-> TRUE, has_default |-> FALSE],
           [name |-> "task", required |-> TRUE, has_default |-> FALSE],
           [name |-> "context", required |-> FALSE, has_default |-> TRUE]}],
    [name |-> "mistral-v2", experimental |-> "absent",
     runner_parameters |->
          {[name |-> "workflow", required |-> FALSE, has_default |-> FALSE],
           [name |-> "task", required |-> FALSE, has_default |-> FALSE],
           [name |-> "context", required |-> FALSE, has_default |-> TRUE]}],
    [name |-> "action-chain", experimental |-> "absent",
     runner_parameters |->
          {}],
    [name |-> "run-python", experimental |-> "absent",
     runner_parameters |->
          {[name |-> "env", required |-> FALSE, has_default |-> FALSE],
           [name |-> "timeout", required |-> FALSE, has_default |-> TRUE]}],
    [name |-> "run-windows-cmd", experimental |-> "true",
     runner_parameters |->
          {[name |-> "host", required |-> TRUE, has_default |-> FALSE],
           [name |-> "username", required |-> TRUE, has_default |-> TRUE],
           [name |-> "password", required |-> TRUE, has_default |-> FALSE],
           [name |-> "cmd", required |-> FALSE, has_default |-> FALSE],
           [name |-> "timeout", required |-> FALSE, has_default |-> TRUE]}],
    [name |-> "run-windows-script", experimental |-> "true",
     runner_parameters |->
          {[name |-> "host", required |-> TRUE, has_default |-> FALSE],
           [name |-> "username", required |-> TRUE, has_default |-> TRUE],
           [name |-> "password", required |-> TRUE, has_default |-> FALSE],
           [name |-> "share", required |-> TRUE, has_default |-> TRUE],
           [name |-> "timeout", required |-> FALSE, has_default |-> TRUE]}]
>>

RequiredWithDefault(params) == {p \in params : p.required /\ p.has_default}

\* The kind of catalog entry (see Kinds) a shipped entry is.
ShippedKind(d) ==
    CASE d.experimental = "true" /\ RequiredWithDefault(d.runner_parameters) # {}
              -> "experimental_required_default"
      [] d.experimental = "true" -> "experimental"
      [] d.experimental = "false" -> "not_experimental"
      [] RequiredWithDefault(d.runner_parameters) # {} -> "required_default"
      [] OTHER -> "plain"

\* ---------------------------------------------------------------------
\* The store: a set of RunnerTypeDB records.  id 0 stands for "no id".
\* ---------------------------------------------------------------------
NoneDb ==
    [id |-> 0, name |-> "", description |-> "", enabled |-> FALSE,
     experimental |-> "absent", runner_module |-> "",
     runner_parameters |-> ParameterSpec(FALSE, FALSE)]

NameIndex(name) ==
    IF name = StaleName THEN Len(NameSeq) + 1
    ELSE CHOOSE k \in 1..Len(NameSeq) : NameSeq[k] = name

\* A record persisted by an earlier process: older description, own id.
StoredRecord(name) ==
    [id |-> NameIndex(name), name |-> name, description |-> "previous",
     enabled |-> TRUE, experimental |-> "absent",
     runner_module |-> "st2actions.runners",
     runner_parameters |-> ParameterSpec(FALSE, TRUE)]

InitialStores(catalog) ==
    {{StoredRecord(n) : n \in names} :
        names \in SUBSET ({catalog[k].name : k \in 1..Len(catalog)} \cup {StaleName})}

FirstFreeId == Len(NameSeq) + 2

\* get_runnertype_by_name: the records the store holds under a name.
FindByName(s, name) == {r \in s : r.name = name}

\* RunnerTypeAPI.validate: required fields present, runner_module non-empty,
\* no parameter both required and defaulted.
Validate(rt) ==
    /\ rt.name # ""
    /\ rt.runner_module # ""
    /\ ~(rt.runner_parameters.required /\ rt.runner_parameters.has_default)

\* RunnerTypeAPI(**runnertype) then RunnerTypeAPI.to_model: a model without
\* id that carries the keys of the dictionary it was built from.
ToModel(rt) ==
    [id |-> 0, name |-> rt.name, description |-> rt.description,
     enabled |-> rt.enabled, experimental |-> rt.experimental,
     runner_module |-> rt.runner_module,
     runner_parameters |-> rt.runner_parameters]

\* RunnerType.add_or_update: create under a fresh id when the model has no
\* id, replace the record of that id otherwise.
AddOrUpdate(s, model, fresh) ==
    IF model.id = 0
    THEN s \cup {[model EXCEPT !.id = fresh]}
    ELSE {r \in s : r.id # model.id} \cup {model}

\* ---------------------------------------------------------------------
\* register_runner_types
\* ---------------------------------------------------------------------

\* lines 452-454: the skip test.
SkipExperimental(rt, flag) == rt.experimental = "true" /\ ~flag

KeepExperimentalKey(rt) == rt

\* lines 458-459: del runnertype['experimental'] when the key is there.
DelExperimental(rt) ==
    IF rt.experimental # "absent" THEN [rt EXCEPT !.experimental = "absent"] ELSE rt

LoseId(model, db) == model

\* lines 472-473: the id of the record found is bound to the model.
BindId(model, db) ==
    IF db # NoneDb THEN [model EXCEPT !.id = db.id] ELSE model

KeepStaleDb(db) == db

\* line 465: runnertype_db = None in the not-found handler.
NotFoundDb(db) == NoneDb

StayIndex(k) == k

\* line 450: the for loop takes the next entry of RUNNER_TYPES.
NextIndex(k) == k + 1

AuditKindSwapped(upd) == IF upd THEN "created" ELSE "updated"

\* lines 479-482: the audit line tells an update from a creation.
AuditKind(upd) == IF upd THEN "updated" ELSE "created"

VARIABLES
    RUNNER_TYPES,       \* the module-level catalog (a list of dictionaries)
    store,              \* the RunnerType collection
    nextId,             \* the id the store assigns next
    pc,                 \* position of the caller / of register_runner_types
    experimental,       \* argument of the running call
    i,                  \* index of `runnertype` in RUNNER_TYPES
    runnertype_db,      \* local: record found by the lookup, or NoneDb
    update,             \* local
    runner_type_model,  \* local: the model handed to add_or_update
    error,              \* exception that left register_runner_types, or ""
    passes,             \* number of calls made so far
    outcomes,           \* per definition of this call: what became of it
    audit,              \* LOG.audit events of this call
    calls,              \* store calls of this call, in order (history)
    catalog0,           \* the catalog as constructed (history)
    store0,             \* the store at process start (history)
    registered,         \* names whose add_or_update succeeded (history)
    failures,           \* <<index, step>> of the failures of this call (history)
    prev                \* the previous call: its argument, result and store

vars == <<RUNNER_TYPES, store, nextId, pc, experimental, i, runnertype_db, update,
          runner_type_model, error, passes, outcomes, audit, calls, catalog0,
          store0, registered, failures, prev>>

NoPass == [made |-> FALSE, experimental |-> FALSE, clean |-> FALSE, store |-> {}]

Init ==
    /\ RUNNER_TYPES \in Catalogs
    /\ store \in InitialStores(RUNNER_TYPES)
    /\ nextId = FirstFreeId
    /\ pc = "start"
    /\ experimental = FALSE
    /\ i = 0
    /\ runnertype_db = NoneDb
    /\ update = FALSE
    /\ runner_type_model = NoneDb
    /\ error = ""
    /\ passes = 0
    /\ outcomes = <<>>
    /\ audit = <<>>
    /\ calls = <<>>
    /\ catalog0 = RUNNER_TYPES
    /\ store0 = store
    /\ registered = {}
    /\ failures = {}
    /\ prev = NoPass

\* Where the loop goes after the definition at index k is dealt with.
LoopNext(k) == IF k < Len(RUNNER_TYPES) THEN "filter" ELSE "returned"

RaiseOnPersistError(k) == "raised"

\* lines 483-484: except Exception: LOG.exception(...), and the loop goes on.
AfterPersistError(k) == LoopNext(k)

\* A call of register_runner_types(experimental=flag), line 443-450.
Call ==
    /\ pc \in {"start", "returned", "raised"}
    /\ passes < MaxPasses
    /\ \E flag \in BOOLEAN : experimental' = flag
    /\ passes' = passes + 1
    /\ prev' = IF pc = "start" THEN NoPass
               ELSE [made |-> TRUE, experimental |-> experimental,
                     clean |-> (failures = {} /\ pc = "returned"), store |-> store]
    /\ i' = 1
    /\ pc' = "filter"
    /\ error' = ""
    /\ outcomes' = <<>>
    /\ audit' = <<>>
    /\ calls' = <<>>
    /\ failures' = {}
    /\ runnertype_db' = NoneDb
    /\ update' = FALSE
    /\ runner_type_model' = NoneDb
    /\ UNCHANGED <<RUNNER_TYPES, store, nextId, catalog0, store0, registered>>

\* lines 451-456: an experimental runner is skipped.
FilterSkip ==
    /\ pc = "filter"
    /\ SkipExperimental(RUNNER_TYPES[i], experimental)
    /\ outcomes' = Append(outcomes, "Skipped")
    /\ pc' = LoopNext(i)
    /\ i' = NextIndex(i)
    /\ UNCHANGED <<RUNNER_TYPES, store, nextId, experimental, runnertype_db, update,
                   runner_type_model, error, passes, audit, calls, catalog0, store0,
                   registered, failures, prev>>

\* lines 451-459: the definition is in scope; its marker is deleted in place.
FilterKeep ==
    /\ pc = "filter"
    /\ ~SkipExperimental(RUNNER_TYPES[i], experimental)
    /\ RUNNER_TYPES' = [RUNNER_TYPES EXCEPT ![i] = DelExperimental(RUNNER_TYPES[i])]
    /\ pc' = "lookup"
    /\ UNCHANGED <<store, nextId, experimental, i, runnertype_db, update,
                   runner_type_model, error, passes, outcomes, audit, calls, catalog0,
                   store0, registered, failures, prev>>

\* lines 461-463: the lookup finds a record.
LookupFound ==
    /\ pc = "lookup"
    /\ \E r \in FindByName(store, RUNNER_TYPES[i].name) :
          /\ runnertype_db' = r
          /\ update' = TRUE
          /\ calls' = Append(calls, [op |-> "find_by_name", name |-> RUNNER_TYPES[i].name,
                                     result |-> "found", id |-> r.id])
    /\ pc' = "validate"
    /\ UNCHANGED <<RUNNER_TYPES, store, nextId, experimental, i, runner_type_model,
                   error, passes, outcomes, audit, catalog0, store0, registered,
                   failures, prev>>

\* lines 464-466: StackStormDBObjectNotFoundError.
LookupNotFound ==
    /\ pc = "lookup"
    /\ FindByName(store, RUNNER_TYPES[i].name) = {}
    /\ runnertype_db' = NotFoundDb(runnertype_db)
    /\ calls' = Append(calls, [op |-> "find_by_name", name |-> RUNNER_TYPES[i].name,
                               result |-> "not_found", id |-> 0])
    /\ update' = FALSE
    /\ pc' = "validate"
    /\ UNCHANGED <<RUNNER_TYPES, store, nextId, experimental, i, runner_type_model,
                   error, passes, outcomes, audit, catalog0, store0, registered,
                   failures, prev>>

\* line 462: any other exception of the lookup is not caught: it leaves
\* register_runner_types.
LookupError ==
    /\ pc = "lookup"
    /\ pc' = "raised"
    /\ error' = "lookup"
    /\ calls' = Append(calls, [op |-> "find_by_name", name |-> RUNNER_TYPES[i].name,
                               result |-> "error", id |-> 0])
    /\ failures' = failures \cup {<<i, "lookup">>}
    /\ UNCHANGED <<RUNNER_TYPES, store, nextId, experimental, i, runnertype_db, update,
                   runner_type_model, passes, outcomes, audit, catalog0, store0,
                   registered, prev>>

\* lines 468-473: the definition validates; the model is built and bound.
ValidateOk ==
    /\ pc = "validate"
    /\ Validate(RUNNER_TYPES[i])
    /\ runner_type_model' = BindId(ToModel(RUNNER_TYPES[i]), runnertype_db)
    /\ pc' = "persist"
    /\ UNCHANGED <<RUNNER_TYPES, store, nextId, experimental, i, runnertype_db, update,
                   error, passes, outcomes, audit, calls, catalog0, store0, registered,
                   failures, prev>>

\* lines 468-469: validate() raises outside of any try block.
ValidateError ==
    /\ pc = "validate"
    /\ ~Validate(RUNNER_TYPES[i])
    /\ pc' = "raised"
    /\ error' = "validation"
    /\ failures' = failures \cup {<<i, "validation">>}
    /\ UNCHANGED <<RUNNER_TYPES, store, nextId, experimental, i, runnertype_db, update,
                   runner_type_model, passes, outcomes, audit, calls, catalog0, store0,
                   registered, prev>>

\* lines 475-482: add_or_update succeeds and the audit line is written;
\* runnertype_db now names the record as saved.
PersistOk ==
    /\ pc = "persist"
    /\ store' = AddOrUpdate(store, runner_type_model, nextId)
    /\ nextId' = IF runner_type_model.id = 0 THEN nextId + 1 ELSE nextId
    /\ audit' = Append(audit, [kind |-> AuditKind(update),
                               name |-> runner_type_model.name])
    /\ outcomes' = Append(outcomes, IF AuditKind(update) = "updated"
                                    THEN "Updated" ELSE "Created")
    /\ calls' = Append(calls, [op |-> "upsert", name |-> runner_type_model.name,
                               result |-> "ok", id |-> runner_type_model.id])
    /\ registered' = registered \cup {runner_type_model.name}
    /\ pc' = LoopNext(i)
    /\ i' = NextIndex(i)
    /\ runnertype_db' = IF runner_type_model.id = 0
                        THEN [runner_type_model EXCEPT !.id = nextId]
                        ELSE runner_type_model
    /\ runner_type_model' = NoneDb
    /\ UNCHANGED <<RUNNER_TYPES, experimental, update, error, passes, catalog0, store0,
                   failures, prev>>

\* lines 476, 483-484: add_or_update raises; the exception is logged.
PersistError ==
    /\ pc = "persist"
    /\ outcomes' = Append(outcomes, "Failed")
    /\ failures' = failures \cup {<<i, "persistence">>}
    /\ calls' = Append(calls, [op |-> "upsert", name |-> runner_type_model.name,
                               result |-> "error", id |-> runner_type_model.id])
    /\ pc' = AfterPersistError(i)
    /\ error' = IF AfterPersistError(i) = "raised" THEN "persistence" ELSE error
    /\ i' = IF AfterPersistError(i) = "raised" THEN i ELSE NextIndex(i)
    /\ runner_type_model' = NoneDb
    /\ UNCHANGED <<RUNNER_TYPES, store, nextId, experimental, runnertype_db, update,
                   passes, audit, catalog0, store0, registered, prev>>

Next ==
    \/ Call
    \/ FilterSkip
    \/ FilterKeep
    \/ LookupFound
    \/ LookupNotFound
    \/ LookupError
    \/ ValidateOk
    \/ ValidateError
    \/ PersistOk
    \/ PersistError

Spec == Init /\ [][Next]_vars

TypeOK ==
    /\ pc \in {"start", "filter", "lookup", "validate", "persist", "returned", "raised"}
    /\ passes \in 0..MaxPasses
    /\ Len(outcomes) <= Len(RUNNER_TYPES)

\* ---------------------------------------------------------------------
\* Properties
\* ---------------------------------------------------------------------
Failed(step) == {f[1] : f \in {g \in failures : g[2] = step}}

Recorded(k, outcome) == k <= Len(outcomes) /\ outcomes[k] = outcome

\* C1: a definition that fails validation gets outcome Failed, nothing is
\* written for it, and the call goes on to the later definitions instead of
\* ending with the validation error.
C1_ValidationFailureIsolated ==
    \A k \in Failed("validation") :
        /\ Recorded(k, "Failed")
        /\ pc # "raised"
        /\ FindByName(store, RUNNER_TYPES[k].name) \subseteq
               FindByName(IF prev.made THEN prev.store ELSE store0, RUNNER_TYPES[k].name)

\* C2: no error leaves register_runner_types, and a call that has returned
\* has accounted for every definition of the catalog, once each, in order.
C2_CallCompletes ==
    /\ pc # "raised"
    /\ pc = "returned" =>
          /\ Len(outcomes) = Len(RUNNER_TYPES)
          /\ \A k \in 1..Len(outcomes) :
                outcomes[k] \in {"Created", "Updated", "Skipped", "Failed"}

\* C3: a lookup that fails with an error other than not-found gives the
\* definition outcome Failed, makes no upsert for it, and the call goes on.
C3_LookupFailureIsolated ==
    \A k \in Failed("lookup") :
        /\ Recorded(k, "Failed")
        /\ pc # "raised"

\* C4: a step in which add_or_update fails records Failed for the
\* definition, leaves the store as it was (the records written earlier in
\* the call included) and moves on to the next definition.
C4_PersistFailureIsolated ==
    [][(\E f \in failures' \ failures : f[2] = "persistence") =>
          /\ store' = store
          /\ outcomes' = Append(outcomes, "Failed")
          /\ pc' \in {"filter", "returned"}
          /\ i' = i + 1
          /\ error' = ""]_vars

\* C4 witness: the second definition of a call failed to persist after the
\* first one was written, and the first one's record is in the store.
C4_Witness ==
    /\ <<2, "persistence">> \in failures
    /\ Recorded(1, "Created")
    /\ \E r \in store : r.name = RUNNER_TYPES[1].name /\ r.description = "current"

\* C5: a record the store held at process start keeps its id: at all times
\* the store holds a record of that name, and every record of that name has
\* that id.
C5_IdentityPreserved ==
    \A r \in store0 :
        /\ \E s \in store : s.name = r.name /\ s.id = r.id
        /\ \A s \in store : s.name = r.name => s.id = r.id

\* C5 witness: after two calls a record present at start was rewritten with
\* the catalog's contents, and later reconciled again.
C5_Witness ==
    /\ passes = 2
    /\ pc = "returned"
    /\ Len(audit) >= 1
    /\ \E r \in store0 : \E s \in store :
          /\ s.name = r.name /\ s.description = "current" /\ s.id = r.id
          /\ prev.made /\ s \in prev.store
          /\ \E k \in 1..Len(audit) : audit[k].name = r.name

\* C6: the store never holds two records of one name, and holds one record
\* for every definition that was created or updated.
C6_OneRecordPerName ==
    /\ \A r, s \in store : r.name = s.name => r = s
    /\ \A n \in registered : Cardinality(FindByName(store, n)) = 1

\* C6 witness: in the second call a creation and an update have both been
\* made, after a first call that ended in an error.
C6_Witness ==
    /\ passes = 2
    /\ prev.made /\ ~prev.clean
    /\ Cardinality(registered) = 2
    /\ \E k \in 1..Len(outcomes) : outcomes[k] = "Updated"
    /\ nextId > FirstFreeId

\* C7: when two calls in a row take the same argument and neither meets a
\* failure, the second call reports Updated for every definition it does
\* not skip and leaves the store as the first call left it.
C7_Idempotent ==
    (/\ pc = "returned" /\ failures = {}
     /\ prev.made /\ prev.clean /\ prev.experimental = experimental) =>
        /\ store = prev.store
        /\ \A k \in 1..Len(outcomes) : outcomes[k] \in {"Skipped", "Updated"}

\* C7 witness: such a pair of calls, the first of which created a record and
\* the second of which updated one.
C7_Witness ==
    /\ pc = "returned" /\ failures = {}
    /\ prev.made /\ prev.clean /\ prev.experimental = experimental
    /\ nextId > FirstFreeId
    /\ \E k \in 1..Len(outcomes) : outcomes[k] = "Updated"

\* C8: in every call a definition is skipped exactly when the catalog marks
\* it experimental=true and the call's argument is false.
C8_SkippedIffExperimental ==
    \A k \in 1..Len(outcomes) :
        outcomes[k] = "Skipped" <=> (catalog0[k].experimental = "true" /\ ~experimental)

\* C9: the catalog is as it was constructed, the experimental markers
\* included.
C9_CatalogUnchanged == RUNNER_TYPES = catalog0

\* C10: the model handed to add_or_update, and every record of the store,
\* is without an experimental key.
C10_NoExperimentalPersisted ==
    /\ pc = "persist" => runner_type_model.experimental = "absent"
    /\ \A r \in store : r.experimental = "absent"

\* C10 witness: the record of a definition that was marked experimental has
\* been written, and one that was marked experimental=false is handed over.
C10_Witness ==
    /\ pc = "persist"
    /\ catalog0[i].experimental = "false"
    /\ \E k \in 1..(i - 1) :
          /\ catalog0[k].experimental = "true"
          /\ outcomes[k] \in {"Created", "Updated"}
          /\ \E r \in store : r.name = catalog0[k].name /\ r.description = "current"

\* The step just taken was a successful add_or_update for definition i.
PersistedNow == pc = "persist" /\ Len(audit') = Len(audit) + 1

SameFields(r, rt) ==
    /\ r.name = rt.name
    /\ r.description = rt.description
    /\ r.enabled = rt.enabled
    /\ r.runner_module = rt.runner_module
    /\ r.runner_parameters = rt.runner_parameters

\* C11: when a valid in-scope definition whose name has no record is
\* persisted after a not-found lookup, the outcome is Created and the store
\* then holds exactly one record of that name, under an id no record had
\* before, with the definition's description, enabled, runner_module and
\* parameters (defaults included).
C11_Creation ==
    [][(PersistedNow /\ calls[Len(calls)].result = "not_found"
                     /\ FindByName(store, RUNNER_TYPES[i].name) = {}) =>
          /\ outcomes' = Append(outcomes, "Created")
          /\ Cardinality(FindByName(store', RUNNER_TYPES[i].name)) = 1
          /\ \A r \in FindByName(store', RUNNER_TYPES[i].name) :
                /\ r.id # 0
                /\ \A s \in store \cup store0 \cup prev.store : s.id # r.id
                /\ SameFields(r, RUNNER_TYPES[i])
                /\ r.runner_parameters.default = catalog0[i].runner_parameters.default]_vars

\* C11 witness: the second definition of a call was created in an empty
\* store after the first was created, each under its own id.
C11_Witness ==
    /\ store0 = {}
    /\ outcomes = <<"Created", "Created">>
    /\ Cardinality(store) = 2
    /\ \E r \in store : SameFields(r, RUNNER_TYPES[2]) /\ r.id = FirstFreeId + 1
                        /\ r.runner_parameters.default = 1800

\* Definition k has gone through the Validate step of the running call.
Validated(k) ==
    /\ pc # "start"
    /\ ~Recorded(k, "Skipped")
    /\ \/ k < i
       \/ k = i /\ pc = "persist"
       \/ k = i /\ pc = "raised" /\ error = "validation"

\* C12: an in-scope definition that has a parameter with required=true and
\* a default fails the Validate step: once it has gone through that step
\* its outcome is Failed, and no record is created or updated for it.
C12_RequiredDefaultFails ==
    \A k \in 1..Len(RUNNER_TYPES) :
        (Validated(k) /\ RUNNER_TYPES[k].runner_parameters.required
                      /\ RUNNER_TYPES[k].runner_parameters.has_default) =>
            /\ Recorded(k, "Failed")
            /\ \A j \in 1..Len(calls) :
                  ~(calls[j].op = "upsert" /\ calls[j].name = RUNNER_TYPES[k].name)

\* The shipped entry that a definition of the process's catalog stands for.
ShippedEntries(rt) ==
    {ShippedCatalog[k] :
        k \in {n \in 1..Len(ShippedCatalog) :
                  RunnerTypeDefinition(ShippedCatalog[n].name,
                                       ShippedKind(ShippedCatalog[n])) = rt}}

\* C13: no parameter of a shipped catalog entry is required and has a
\* default; stated of the shipped entries the process's catalog is made of.
C13_ShippedParametersConsistent ==
    \A j \in 1..Len(catalog0) :
        \A d \in ShippedEntries(catalog0[j]) :
            \A p \in d.runner_parameters : p.required => ~p.has_default

\* The audit events a log of store calls accounts for: one per successful
\* upsert, its kind given by the answer of the lookup that preceded it.
RECURSIVE AuditOf(_)
AuditOf(cs) ==
    IF cs = <<>> THEN <<>>
    ELSE LET n == Len(cs)
             rest == AuditOf(SubSeq(cs, 1, n - 1))
         IN  IF cs[n].op = "upsert" /\ cs[n].result = "ok"
             THEN Append(rest, [kind |-> IF n > 1 /\ cs[n - 1].result = "found"
                                         THEN "updated" ELSE "created",
                                name |-> cs[n].name])
             ELSE rest

CatalogIndex(name) ==
    CHOOSE k \in 1..Len(RUNNER_TYPES) : RUNNER_TYPES[k].name = name

\* C14: the audit events of a call are exactly one per successful upsert,
\* in catalog order, 'created' after a not-found lookup and 'updated' after
\* a found one; a skipped or failed definition has no event.
C14_AuditEvents ==
    /\ audit = AuditOf(calls)
    /\ \A a, b \in 1..Len(audit) :
          a < b => CatalogIndex(audit[a].name) < CatalogIndex(audit[b].name)
    /\ \A k \in 1..Len(outcomes) :
          Cardinality({a \in 1..Len(audit) : audit[a].name = RUNNER_TYPES[k].name})
              = IF outcomes[k] \in {"Created", "Updated"} THEN 1 ELSE 0

\* C14 witness: a call that created the first definition and updated the
\* second has written the two events in that order.
C14_Witness ==
    /\ pc = "returned"
    /\ Len(audit) = 2
    /\ audit[1].kind = "created" /\ audit[1].name = RUNNER_TYPES[1].name
    /\ audit[2].kind = "updated" /\ audit[2].name = RUNNER_TYPES[2].name

\* C15: the store calls of a call follow catalog order without
\* interleaving: the first call is a lookup, an upsert directly follows the
\* lookup of the same definition, which answered found or not-found and
\* whose definition validates, every other call is the lookup of a later
\* definition, and no definition has two lookups or two upserts.
C15_CallProtocol ==
    /\ Len(calls) >= 1 => calls[1].op = "find_by_name"
    /\ \A j \in 1..Len(calls) :
          \E k \in 1..Len(RUNNER_TYPES) : RUNNER_TYPES[k].name = calls[j].name
    /\ \A j \in 1..(Len(calls) - 1) :
          IF calls[j + 1].op = "upsert"
          THEN /\ calls[j].op = "find_by_name"
               /\ calls[j].name = calls[j + 1].name
               /\ calls[j].result \in {"found", "not_found"}
               /\ Validate(RUNNER_TYPES[CatalogIndex(calls[j + 1].name)])
          ELSE CatalogIndex(calls[j].name) < CatalogIndex(calls[j + 1].name)
    /\ \A a, b \in 1..Len(calls) :
          (a # b /\ calls[a].name = calls[b].name) => calls[a].op # calls[b].op

\* C15 witness: lookup (not found) and failed upsert of the first
\* definition, then lookup (found) and upsert of the second.
C15_Witness ==
    /\ Len(calls) = 4
    /\ calls[2].op = "upsert" /\ calls[4].op = "upsert"
    /\ calls[1].result = "not_found" /\ calls[3].result = "found"
    /\ calls[2].result = "error"

\* C16: a step changes the store only by a successful upsert, and then
\* only records of the name of the definition in hand; a step that records
\* Skipped or Failed leaves the store as it was.
C16_StoreFrame ==
    [][/\ store' # store =>
             /\ PersistedNow
             /\ \A r \in (store \ store') \cup (store' \ store) :
                   r.name = RUNNER_TYPES[i].name
       /\ (/\ Len(outcomes') = Len(outcomes) + 1
           /\ outcomes'[Len(outcomes')] \in {"Skipped", "Failed"}) => store' = store]_vars

\* C16 witness: after a call that updated the first definition and skipped
\* the second, the stale record and the skipped definition's record are as
\* they were at process start.
C16_Witness ==
    /\ pc = "returned"
    /\ outcomes = <<"Updated", "Skipped">>
    /\ StoredRecord(StaleName) \in store
    /\ StoredRecord(RUNNER_TYPES[2].name) \in store
    /\ StoredRecord(RUNNER_TYPES[1].name) \notin store

\* C17: the model handed to add_or_update carries an id exactly when the
\* lookup of its definition found a record, and then that record's id;
\* update is true in exactly that case, and a successful upsert is reported
\* Updated in that case and Created otherwise.
C17_UpdateAgreesWithId ==
    /\ pc = "persist" =>
          /\ update <=> runner_type_model.id # 0
          /\ update <=> calls[Len(calls)].result = "found"
    /\ \A j \in 1..Len(calls) :
          calls[j].op = "upsert" =>
             /\ j > 1
             /\ calls[j].id # 0 <=> calls[j - 1].result = "found"
             /\ calls[j].id # 0 => calls[j].id = calls[j - 1].id
             /\ calls[j].result = "ok" =>
                   Recorded(CatalogIndex(calls[j].name),
                            IF calls[j].id # 0 THEN "Updated" ELSE "Created")

\* C17 witness: a model with the found record's id is about to be upserted
\* after an earlier definition was created without id.
C17_Witness ==
    /\ pc = "persist" /\ update /\ runner_type_model.id # 0
    /\ Len(calls) = 3
    /\ calls[2].op = "upsert" /\ calls[2].id = 0 /\ calls[2].result = "ok"
    /\ calls[3].id = runner_type_model.id
====
